---- MODULE Spec2Model ----
(***************************************************************************)
(* Model of cf-expandables (src/src/js/cf-expandables.js): the Expandable  *)
(* widget, its throttled click handler and the $.fn.expandable plugin.     *)
(*                                                                         *)
(* The page holds the elements Containers, which carry the class           *)
(* `expandable`, all below one `.expandable-group` element.  The           *)
(* containers are direct children of the group element, or each sits in a  *)
(* wrapper element of its own.                                             *)
(* Time is counted in milliseconds and advances in steps of TickMs.  A     *)
(* handler runs to completion (one action); a timer callback that is due   *)
(* runs before the event loop takes the next click.                        *)
(*                                                                         *)
(* Spec is the page with well-formed containers and jQuery.fx.off set;     *)
(* SpecMissing the page with a container that lacks its trigger or its     *)
(* content region; SpecFx the page with effects that take time;            *)
(* SpecNested the page with one container inside the other; SpecCalc the   *)
(* static duration functions applied to ranges of arguments.               *)
(***************************************************************************)
EXTENDS Integers, Sequences, FiniteSets, TLC

\* ------------------------------------------------------------------ bounds
\* the number of times a caller applies the plugin after the script's load
MaxPluginCalls == 1
TickMs == 225
\* the content heights (px) the duration calculators are applied to: 0..MaxHeight
MaxHeight == 500
\* the arguments constrainValue is applied to: -MaxValue..MaxValue
MaxValue == 4

\* the elements of the page that carry the class `expandable`, numbered in
\* document order
Containers == {1, 2}

\* ContentHeight[w]: the height (px) that $content.height() reports for w
ContentHeight == <<100, 200>>
\* throttleDuration values a caller passes to the plugin
CallerDurations == {300}
\* expandedClass values a caller passes to the plugin
CallerClasses == {"is-open"}
\* values of the data-accordion attribute on the group ("none": no attribute)
AccordionAttrs == {"true", "false"}
\* the sets of containers that are in the document when the script loads
LoadedSets == {{1}, {1, 2}}
\* marker classes a container carries in the markup when the script loads
MarkupClasses == {{}, {"expandable__expanded"}}

\* ------------------------------------------------- Expandable.defaultProperties
DefaultIsInAccordion == FALSE
DefaultExpandedClass == "expandable__expanded"
DefaultThrottleDuration == 450

defaultProperties ==
  [isInAccordion |-> DefaultIsInAccordion,
   expandedClass |-> DefaultExpandedClass,
   throttleDuration |-> DefaultThrottleDuration]

ClassNames == {DefaultExpandedClass} \cup CallerClasses

\* the `duration` argument of expand/collapse when the caller passes none
Undefined == 0 - 1
\* the `duration` arguments of a caller's expand and collapse calls
CallDurations == {Undefined}
\* a throttled handler without a pending window.setTimeout
NoTimer == 0 - 1
\* no processed activation yet
Never == 0 - 1

OptionKeys == {"isInAccordion", "expandedClass", "throttleDuration"}

\* the sets of keys of the options objects a caller passes: none, one key
\* with the other two left to the defaults, all three
GivenSets == {{}, {"isInAccordion"}, OptionKeys}

\* The options objects a caller passes: `given` holds the keys the object
\* has; a key that is not given carries the default as a placeholder.
OptionObjects ==
  {o \in [given : GivenSets,
          isInAccordion : BOOLEAN,
          expandedClass : ClassNames,
          throttleDuration : CallerDurations \cup {DefaultThrottleDuration}] :
     /\ ("isInAccordion" \notin o.given => o.isInAccordion = DefaultIsInAccordion)
     /\ ("expandedClass" \notin o.given => o.expandedClass = DefaultExpandedClass)
     /\ ("expandedClass" \in o.given => o.expandedClass \in CallerClasses)
     /\ ("throttleDuration" \notin o.given
           => o.throttleDuration = DefaultThrottleDuration)
     /\ ("throttleDuration" \in o.given => o.throttleDuration \in CallerDurations)}

NoOptions ==
  [given |-> {},
   isInAccordion |-> DefaultIsInAccordion,
   expandedClass |-> DefaultExpandedClass,
   throttleDuration |-> DefaultThrottleDuration]

VARIABLES
  accordionAttr,    \* data-accordion attribute of the .expandable-group
  wrapped,          \* each container sits in a wrapper element of its own
  hasTarget,        \* hasTarget[w]: the container holds an .expandable_target
  hasContent,       \* hasContent[w]: the container holds an .expandable_content
  fxOff,            \* jQuery.fx.off: effects jump to their end state
  nested,           \* the second container lies inside the content region
                    \* of the first
  status,           \* "absent" | "inserted" (plain element) | "widget"
  classes,          \* classes[w]: marker classes on the container
  isExpanded,       \* this.isExpanded
  isInAccordion,    \* this.isInAccordion
  expandedClass,    \* this.expandedClass
  throttleDuration, \* this.throttleDuration
  ariaPressed,      \* aria-pressed on the trigger
  ariaExpanded,     \* aria-expanded on the content region
  transition,       \* the last slideDown/slideUp started on the content
  animating,        \* animating[w]: an effect on the content is in progress
  visible,          \* visible[w]: the content is displayed, as of the last
                    \* effect that has finished
  overlap,          \* overlap[w]: the last effect was started while
                    \* another was in progress
  handlers,         \* handlers[w]: click handlers bound on the container
  event,            \* the click event that this step has dispatched
                    \* (NoEvent after a step that is no click)
  sinceToggle,      \* ms since toggle was last called on w (history),
                    \* counted up to DefaultThrottleDuration
  pluginCalls,      \* number of explicit $( w ).expandable( options ) calls
  applied,          \* the plugin call that this step has made: the element
                    \* and the options object (NotApplied after other steps)
  run,              \* the toggle calls made in succession on one widget
                    \* with no other operation in between (history)
  calc              \* a call of one of the static duration functions: its
                    \* arguments and, once it has returned, its result

dom == <<accordionAttr, wrapped, hasTarget, hasContent, fxOff, nested>>
vars == <<accordionAttr, wrapped, hasTarget, hasContent, fxOff, nested,
          status, classes, isExpanded, isInAccordion, expandedClass,
          throttleDuration, ariaPressed, ariaExpanded, transition, animating,
          visible, overlap, handlers, event, sinceToggle, pluginCalls,
          applied, run, calc>>
\* the variables of the page and its widgets
page == <<accordionAttr, wrapped, hasTarget, hasContent, fxOff, nested,
          status, classes, isExpanded, isInAccordion, expandedClass,
          throttleDuration, ariaPressed, ariaExpanded, transition, animating,
          visible, overlap, handlers, event, sinceToggle, pluginCalls,
          applied, run>>

\* no call of a static function is under way
NoCall == [fn |-> "none", args |-> <<>>, returned |-> FALSE, result |-> 0]
NotApplied == [target |-> 0, options |-> NoOptions, transitions |-> 0]
NoTransition == [kind |-> "none", duration |-> 0]
\* `toggled`: the containers whose toggle the event's dispatch has called,
\* in call order; `threw`: a handler ended with an uncaught TypeError
NoEvent == [target |-> 0, defaultPrevented |-> FALSE,
            propagationStopped |-> FALSE, toggled |-> <<>>, threw |-> FALSE]

\* `count` toggle calls in succession on `target`; `before`: the target's
\* state before the first of them
NoRun == [target |-> 0, count |-> 0,
          before |-> [isExpanded |-> FALSE, ariaPressed |-> "unset",
                      ariaExpanded |-> "unset"]]

\* ------------------------------------------------------------ pure functions
\* constrainValue without the test against max
constrainValue_noMax(min, max, duration) ==
  IF duration < min THEN min
  ELSE duration

constrainValue(min, max, duration) ==
  IF duration > max THEN max
  ELSE IF duration < min THEN min
  ELSE duration

\* calculateExpandDuration without the call of constrainValue
calculateExpandDuration_unconstrained(h) == h * 4

calculateExpandDuration(h) == constrainValue(450, 900, h * 4)

\* calculateCollapseDuration with the factor and floor of the expand duration
calculateCollapseDuration_asExpand(h) == constrainValue(450, 900, h * 4)

calculateCollapseDuration(h) == constrainValue(350, 900, h * 2)

\* the merge with the arguments of _extend swapped: the defaults win
MergedProperties_defaultsWin(options) ==
  [k \in OptionKeys |-> defaultProperties[k]]

\* _extend( true, {}, Expandable.defaultProperties, options ): a key of the
\* options object overrides the default
MergedProperties(options) ==
  [k \in OptionKeys |->
     IF k \in options.given THEN options[k] ELSE defaultProperties[k]]

\* jQuery's .data() conversion of the attribute text, then Boolean( ... )
DataAccordion(attr) ==
  IF attr \in {"none", "", "false", "null", "0"} THEN FALSE ELSE TRUE

\* this.$el.siblings( '.expandable' ): the other containers with the same
\* parent element, in document order
SiblingSet(w) ==
  {v \in Containers : v # w /\ status[v] # "absent" /\ ~wrapped /\ ~nested}

RECURSIVE InOrder(_)
InOrder(S) ==
  IF S = {} THEN <<>>
  ELSE LET m == CHOOSE x \in S : \A y \in S : x <= y
       IN <<m>> \o InOrder(S \ {m})

Siblings(w) == InOrder(SiblingSet(w))
\* ------------------------------------------------------- the widget's state
\* The mutable state the handlers work on, as one record, so that the calls
\* of one handler compose in program order.  `started` counts the slideDown
\* and slideUp calls the handler has made so far.
Heap ==
  [status |-> status, classes |-> classes, isExpanded |-> isExpanded,
   isInAccordion |-> isInAccordion, expandedClass |-> expandedClass,
   throttleDuration |-> throttleDuration, ariaPressed |-> ariaPressed,
   ariaExpanded |-> ariaExpanded, transition |-> transition,
   animating |-> animating, visible |-> visible, overlap |-> overlap,
   handlers |-> handlers, event |-> event, run |-> run, started |-> 0]

\* this.$content.slideDown / slideUp( { duration: d } ), jQuery's effects.
\* On the empty set nothing starts.  With jQuery.fx.off the end state is
\* applied at once.  Otherwise the effect joins the content's fx queue: an
\* effect behind one that is still running waits for it; an effect of
\* duration 0, and one whose end state the content already shows, is done
\* when the call returns; any other is in progress from then on.
Slide(s, w, kind, d) ==
  LET shows == kind = "slideDown"
      s1 == [s EXCEPT !.transition[w] = [kind |-> kind, duration |-> d],
                      !.started = @ + 1]
  IN IF ~hasContent[w] THEN s
     ELSE IF s.animating[w]
          THEN [s1 EXCEPT !.overlap[w] = TRUE]
          ELSE IF fxOff \/ d = 0 \/ s.visible[w] = shows
               THEN [s1 EXCEPT !.visible[w] = shows, !.overlap[w] = FALSE]
               ELSE [s1 EXCEPT !.animating[w] = TRUE, !.overlap[w] = FALSE]

slideDown(s, w, d) == Slide(s, w, "slideDown", d)
slideUp(s, w, d) == Slide(s, w, "slideUp", d)

\* expand without the aria-expanded assignment on the content
expand_keepsAriaExpanded(s, w, duration) ==
  LET d == IF duration = Undefined
           THEN calculateExpandDuration(ContentHeight[w])
           ELSE duration
  IN [slideDown(s, w, d) EXCEPT
        !.ariaPressed[w] = IF hasTarget[w] THEN "true" ELSE @,
        !.classes[w] = @ \cup {s.expandedClass[w]},
        !.isExpanded[w] = TRUE]

\* expand that fails, before it changes anything, on a container that lacks
\* its trigger or its content region
expand_needsElements(s, w, duration) ==
  LET d == IF duration = Undefined
           THEN calculateExpandDuration(ContentHeight[w])
           ELSE duration
  IN IF ~(hasTarget[w] /\ hasContent[w]) THEN s
     ELSE [slideDown(s, w, d) EXCEPT
             !.ariaPressed[w] = "true",
             !.ariaExpanded[w] = "true",
             !.classes[w] = @ \cup {s.expandedClass[w]},
             !.isExpanded[w] = TRUE]

\* expand that leaves the isExpanded assignment to the end of the effect
expand_deferred(s, w, duration) ==
  LET d == IF duration = Undefined
           THEN calculateExpandDuration(ContentHeight[w])
           ELSE duration
  IN [slideDown(s, w, d) EXCEPT
        !.ariaPressed[w] = IF hasTarget[w] THEN "true" ELSE @,
        !.ariaExpanded[w] = IF hasContent[w] THEN "true" ELSE @,
        !.classes[w] = @ \cup {s.expandedClass[w]},
        !.isExpanded[w] = IF slideDown(s, w, d).animating[w] THEN @ ELSE TRUE]

\* Expandable.expand.  this.$target and this.$content are the sets that
\* initUI found; attr and slideDown on an empty set do nothing.
expand(s, w, duration) ==
  LET d == IF duration = Undefined
           THEN calculateExpandDuration(ContentHeight[w])
           ELSE duration
  IN [slideDown(s, w, d) EXCEPT
        !.ariaPressed[w] = IF hasTarget[w] THEN "true" ELSE @,
        !.ariaExpanded[w] = IF hasContent[w] THEN "true" ELSE @,
        !.classes[w] = @ \cup {s.expandedClass[w]},
        !.isExpanded[w] = TRUE]

\* collapse without its removeClass call
collapse_keepsClass(s, w, duration) ==
  LET d == IF duration = Undefined
           THEN calculateCollapseDuration(ContentHeight[w])
           ELSE duration
  IN [slideUp(s, w, d) EXCEPT
        !.ariaPressed[w] = IF hasTarget[w] THEN "false" ELSE @,
        !.ariaExpanded[w] = IF hasContent[w] THEN "false" ELSE @,
        !.isExpanded[w] = FALSE]

\* collapse without the aria-pressed assignment on the trigger
collapse_keepsPressed(s, w, duration) ==
  LET d == IF duration = Undefined
           THEN calculateCollapseDuration(ContentHeight[w])
           ELSE duration
  IN [slideUp(s, w, d) EXCEPT
        !.ariaExpanded[w] = IF hasContent[w] THEN "false" ELSE @,
        !.classes[w] = @ \ {s.expandedClass[w]},
        !.isExpanded[w] = FALSE]

\* collapse that starts a slideDown on the content
collapse_slidesDown(s, w, duration) ==
  LET d == IF duration = Undefined
           THEN calculateCollapseDuration(ContentHeight[w])
           ELSE duration
  IN [slideDown(s, w, d) EXCEPT
        !.ariaPressed[w] = IF hasTarget[w] THEN "false" ELSE @,
        !.ariaExpanded[w] = IF hasContent[w] THEN "false" ELSE @,
        !.classes[w] = @ \ {s.expandedClass[w]},
        !.isExpanded[w] = FALSE]

\* Expandable.collapse
collapse(s, w, duration) ==
  LET d == IF duration = Undefined
           THEN calculateCollapseDuration(ContentHeight[w])
           ELSE duration
  IN [slideUp(s, w, d) EXCEPT
        !.ariaPressed[w] = IF hasTarget[w] THEN "false" ELSE @,
        !.ariaExpanded[w] = IF hasContent[w] THEN "false" ELSE @,
        !.classes[w] = @ \ {s.expandedClass[w]},
        !.isExpanded[w] = FALSE]

\* .each( function( index, sibling ) { sibling.collapse(); } ): a sibling
\* that was never made an Expandable has no collapse method, the call throws
\* and ends the loop and the handler
RECURSIVE CollapseEach(_, _)
CollapseEach(s, sibs) ==
  IF sibs = <<>> THEN s
  ELSE IF s.status[Head(sibs)] # "widget"
       THEN [s EXCEPT !.event.threw = TRUE]
       ELSE CollapseEach(collapse(s, Head(sibs), Undefined), Tail(sibs))

\* toggle without the isInAccordion test: the siblings are always collapsed
toggle_collapsesSiblings(s, w) ==
  LET s1 == [s EXCEPT !.event.defaultPrevented = TRUE,
                      !.event.propagationStopped = TRUE,
                      !.event.toggled = Append(@, w)]
  IN IF s1.isExpanded[w]
     THEN collapse(s1, w, Undefined)
     ELSE LET s2 == CollapseEach(s1, Siblings(w))
          IN IF s2.event.threw THEN s2 ELSE expand(s2, w, Undefined)

\* Expandable.toggle
toggle(s, w) ==
  LET s1 == [s EXCEPT !.event.defaultPrevented = TRUE,
                      !.event.propagationStopped = TRUE,
                      !.event.toggled = Append(@, w)]
  IN IF s1.isExpanded[w]
     THEN collapse(s1, w, Undefined)
     ELSE IF s1.isInAccordion[w]
          THEN LET s2 == CollapseEach(s1, Siblings(w))
               IN IF s2.event.threw THEN s2 ELSE expand(s2, w, Undefined)
          ELSE expand(s1, w, Undefined)

\* history: what the toggle call that took `pre` to `post` adds to `run`
Observe(pre, post, w) ==
  [post EXCEPT !.run =
     IF post.event.threw THEN NoRun
     ELSE IF pre.run.target = w /\ pre.run.count = 1
          THEN [pre.run EXCEPT !.count = 2]
          ELSE [target |-> w, count |-> 1,
                before |-> [isExpanded |-> pre.isExpanded[w],
                            ariaPressed |-> pre.ariaPressed[w],
                            ariaExpanded |-> pre.ariaExpanded[w]]]]

\* _delay without the isThrottling test: every activation is processed
Delay_noThrottle(s, w, i) ==
  LET s1 == [s EXCEPT !.handlers[w][i].isThrottling = TRUE]
      s2 == Observe(s1, toggle(s1, w), w)
  IN IF s2.event.threw
     THEN s2
     ELSE [s2 EXCEPT !.handlers[w][i].timer = s2.handlers[w][i].duration]

\* _delay with one isThrottling flag shared by every handler of the page
Delay_sharedFlag(s, w, i) ==
  IF \E v \in Containers : \E k \in 1..Len(s.handlers[v]) :
       s.handlers[v][k].isThrottling = TRUE
  THEN s
  ELSE LET s1 == [s EXCEPT !.handlers[w][i].isThrottling = TRUE]
           s2 == Observe(s1, toggle(s1, w), w)
       IN IF s2.event.threw
          THEN s2
          ELSE [s2 EXCEPT !.handlers[w][i].timer = s2.handlers[w][i].duration]

\* _throttle's _delay, for the i-th handler bound on container w
Delay(s, w, i) ==
  IF s.handlers[w][i].isThrottling = TRUE
  THEN s
  ELSE LET s1 == [s EXCEPT !.handlers[w][i].isThrottling = TRUE]
           s2 == Observe(s1, toggle(s1, w), w)
       IN IF s2.event.threw
          THEN s2
          ELSE [s2 EXCEPT !.handlers[w][i].timer = s2.handlers[w][i].duration]

\* jQuery's dispatch of one click on w's trigger: the handlers bound on the
\* container run in the order they were bound; an uncaught exception ends it
RECURSIVE Dispatch(_, _, _)
Dispatch(s, w, i) ==
  IF i > Len(s.handlers[w]) \/ s.event.threw
  THEN s
  ELSE Dispatch(Delay(s, w, i), w, i + 1)

\* initUI without the isExpanded test: the widget is always collapsed
initUI_collapses(s, w) ==
  collapse(s, w, 0)

\* Expandable.initUI
initUI(s, w) ==
  IF s.isExpanded[w] THEN expand(s, w, 0) ELSE collapse(s, w, 0)

\* Expandable.initEvents
initEvents(s, w) ==
  [s EXCEPT !.handlers[w] =
     Append(@, [duration |-> s.throttleDuration[w],
                isThrottling |-> FALSE,
                timer |-> NoTimer])]

\* Expandable.init
init(s, w) ==
  LET s1 == [s EXCEPT !.isInAccordion[w] = DataAccordion(accordionAttr)]
      s2 == [s1 EXCEPT !.isExpanded[w] = s1.expandedClass[w] \in s1.classes[w]]
  IN initEvents(initUI(s2, w), w)

\* Expandable.create
create(s, w, options) ==
  LET properties == MergedProperties(options)
      s1 == [s EXCEPT !.status[w] = "widget",
                      !.isInAccordion[w] = properties.isInAccordion,
                      !.expandedClass[w] = properties.expandedClass,
                      !.throttleDuration[w] = properties.throttleDuration]
  IN init(s1, w)

\* $.fn.expandable over the elements of a jQuery set, in document order
RECURSIVE expandable(_, _, _)
expandable(s, elements, options) ==
  IF elements = <<>> THEN s
  ELSE expandable(create(s, Head(elements), options), Tail(elements), options)

\* the state of the page before the script runs
Markup(present, cls) ==
  [status |-> [w \in Containers |-> IF w \in present THEN "inserted" ELSE "absent"],
   classes |-> [w \in Containers |-> IF w \in present THEN cls[w] ELSE {}],
   isExpanded |-> [w \in Containers |-> FALSE],
   isInAccordion |-> [w \in Containers |-> DefaultIsInAccordion],
   expandedClass |-> [w \in Containers |-> DefaultExpandedClass],
   throttleDuration |-> [w \in Containers |-> DefaultThrottleDuration],
   ariaPressed |-> [w \in Containers |-> "unset"],
   ariaExpanded |-> [w \in Containers |-> "unset"],
   transition |-> [w \in Containers |-> NoTransition],
   animating |-> [w \in Containers |-> FALSE],
   visible |-> [w \in Containers |-> FALSE],
   overlap |-> [w \in Containers |-> FALSE],
   handlers |-> [w \in Containers |-> <<>>],
   event |-> NoEvent,
   run |-> NoRun,
   started |-> 0]

Commit(s) ==
  /\ handlers' = s.handlers
  /\ expandedClass' = s.expandedClass
  /\ throttleDuration' = s.throttleDuration
  /\ status' = s.status
  /\ classes' = s.classes
  /\ isExpanded' = s.isExpanded
  /\ isInAccordion' = s.isInAccordion
  /\ ariaPressed' = s.ariaPressed
  /\ ariaExpanded' = s.ariaExpanded
  /\ transition' = s.transition
  /\ animating' = s.animating
  /\ visible' = s.visible
  /\ overlap' = s.overlap
  /\ event' = s.event
  /\ run' = s.run

\* ------------------------------------------------------------------- Init
\* The state after the script has loaded: $( '.expandable' ).expandable()
\* has made a widget of every container that was in the document.
Loaded ==
  /\ accordionAttr \in AccordionAttrs
  /\ wrapped \in BOOLEAN
  /\ sinceToggle = [w \in Containers |-> Never]
  /\ pluginCalls = 0
  /\ applied = NotApplied
  /\ \E present \in LoadedSets, cls \in [Containers -> MarkupClasses] :
       LET s == expandable(Markup(present, cls), InOrder(present), NoOptions)
       IN /\ \A w \in Containers : w \notin present => cls[w] = {}
          /\ status = s.status
          /\ classes = s.classes
          /\ isExpanded = s.isExpanded
          /\ isInAccordion = s.isInAccordion
          /\ expandedClass = s.expandedClass
          /\ throttleDuration = s.throttleDuration
          /\ ariaPressed = s.ariaPressed
          /\ ariaExpanded = s.ariaExpanded
          /\ transition = s.transition
          /\ animating = s.animating
          /\ visible = s.visible
          /\ overlap = s.overlap
          /\ handlers = s.handlers
          /\ event = s.event
          /\ run = s.run

\* every container holds a trigger and a content region
WellFormed ==
  /\ hasTarget = [w \in Containers |-> TRUE]
  /\ hasContent = [w \in Containers |-> TRUE]

\* The page of the main specification runs with jQuery.fx.off set: every
\* effect is at its end state when the call that started it returns.
Init ==
  /\ fxOff = TRUE
  /\ nested = FALSE
  /\ WellFormed
  /\ Loaded
  /\ calc = NoCall

\* The first container lacks its trigger, its content region or both; the
\* containers are the children of a group that is an accordion.
InitMissing ==
  /\ fxOff = TRUE
  /\ nested = FALSE
  /\ hasTarget \in [Containers -> BOOLEAN]
  /\ hasContent \in [Containers -> BOOLEAN]
  /\ ~(hasTarget[1] /\ hasContent[1])
  /\ \A w \in Containers \ {1} : hasTarget[w] /\ hasContent[w]
  /\ Loaded
  /\ accordionAttr = "true"
  /\ ~wrapped
  /\ calc = NoCall

\* ---------------------------------------------------------------- actions
TimerDue == \E w \in Containers : \E i \in 1..Len(handlers[w]) :
              handlers[w][i].timer = 0

\* the containers that enclose container w, from the innermost outwards
Enclosing(w) == IF nested /\ w = 2 THEN <<1>> ELSE <<>>

\* The click bubbles from the trigger of w: the handlers of w's container
\* run, then those of each enclosing container, whose delegation selector
\* '.expandable_target' matches the trigger as well, unless a handler has
\* called event.stopPropagation() by then.
RECURSIVE Bubble(_, _)
Bubble(s, path) ==
  IF path = <<>> \/ s.event.propagationStopped \/ s.status[Head(path)] # "widget"
  THEN s
  ELSE Bubble(Dispatch(s, Head(path), 1), Tail(path))

\* a click on the trigger of widget w
Click(w) ==
  /\ status[w] = "widget"
  /\ hasTarget[w]
  /\ ~TimerDue
  /\ LET s == Bubble(Dispatch([Heap EXCEPT !.event = [NoEvent EXCEPT !.target = w]],
                              w, 1),
                     Enclosing(w))
     IN /\ Commit(s)
        /\ sinceToggle' = [v \in Containers |->
              IF \E k \in 1..Len(s.event.toggled) : s.event.toggled[k] = v
              THEN 0 ELSE sinceToggle[v]]
  /\ applied' = NotApplied
  /\ UNCHANGED <<dom, calc, pluginCalls>>

\* the callback of window.setTimeout in _delay
TimerFire(w, i) ==
  /\ i \in 1..Len(handlers[w])
  /\ handlers[w][i].timer = 0
  /\ handlers' = [handlers EXCEPT ![w][i].isThrottling = FALSE,
                                  ![w][i].timer = NoTimer]
  /\ UNCHANGED <<dom, calc, status, classes, isExpanded, isInAccordion,
                 expandedClass, throttleDuration, ariaPressed, ariaExpanded,
                 transition, animating, visible, overlap, sinceToggle,
                 pluginCalls, run>>
  /\ event' = NoEvent
  /\ applied' = NotApplied

Max(a, b) == IF a > b THEN a ELSE b
Min(a, b) == IF a < b THEN a ELSE b

\* TickMs milliseconds pass
Tick ==
  /\ ~TimerDue
  /\ handlers' = [w \in Containers |->
        [i \in 1..Len(handlers[w]) |->
           IF handlers[w][i].timer = NoTimer
           THEN handlers[w][i]
           ELSE [handlers[w][i] EXCEPT !.timer = Max(0, @ - TickMs)]]]
  /\ sinceToggle' = [w \in Containers |->
        IF sinceToggle[w] = Never THEN Never
        ELSE Min(DefaultThrottleDuration, sinceToggle[w] + TickMs)]
  /\ UNCHANGED <<dom, calc, status, classes, isExpanded, isInAccordion,
                 expandedClass, throttleDuration, ariaPressed, ariaExpanded,
                 transition, animating, visible, overlap, pluginCalls, run>>
  /\ event' = NoEvent
  /\ applied' = NotApplied

\* the page adds a container to the document after the script has loaded
Insert(w, cls) ==
  /\ status[w] = "absent"
  /\ status' = [status EXCEPT ![w] = "inserted"]
  /\ classes' = [classes EXCEPT ![w] = cls]
  /\ UNCHANGED <<dom, calc, isExpanded, isInAccordion, expandedClass,
                 throttleDuration, ariaPressed, ariaExpanded, transition,
                 animating, visible, overlap, handlers, sinceToggle,
                 pluginCalls, run>>
  /\ event' = NoEvent
  /\ applied' = NotApplied

\* a caller applies $( w ).expandable( options )
Plugin(w, options) ==
  /\ status[w] # "absent"
  /\ pluginCalls < MaxPluginCalls
  /\ pluginCalls' = pluginCalls + 1
  /\ LET s == expandable(Heap, <<w>>, options)
     IN /\ applied' = [target |-> w, options |-> options,
                       transitions |-> s.started]
        /\ Commit([s EXCEPT !.run = NoRun, !.event = NoEvent])
  /\ UNCHANGED <<dom, calc, sinceToggle>>

\* a caller calls the element's expand method
CallExpand(w, duration) ==
  /\ status[w] = "widget"
  /\ Commit([expand(Heap, w, duration) EXCEPT !.run = NoRun, !.event = NoEvent])
  /\ applied' = NotApplied
  /\ UNCHANGED <<dom, calc, sinceToggle, pluginCalls>>

\* a caller calls the element's collapse method
CallCollapse(w, duration) ==
  /\ status[w] = "widget"
  /\ Commit([collapse(Heap, w, duration) EXCEPT !.run = NoRun, !.event = NoEvent])
  /\ applied' = NotApplied
  /\ UNCHANGED <<dom, calc, sinceToggle, pluginCalls>>

Next ==
  \/ \E w \in Containers : Click(w)
  \/ \E w \in Containers : \E i \in 1..(1 + MaxPluginCalls) : TimerFire(w, i)
  \/ Tick
  \/ \E w \in Containers : \E cls \in MarkupClasses : Insert(w, cls)
  \/ \E w \in Containers : \E options \in OptionObjects : Plugin(w, options)
  \/ \E w \in Containers : \E d \in CallDurations : CallExpand(w, d)
  \/ \E w \in Containers : \E d \in CallDurations : CallCollapse(w, d)

Spec == Init /\ [][Next]_vars

\* the same page with a container that lacks elements
SpecMissing == InitMissing /\ [][Next]_vars

\* -------------------------------------------------------- nested containers
\* The second container lies inside the content region of the first; both
\* are below the group element.
InitNested ==
  /\ fxOff = TRUE
  /\ nested = TRUE
  /\ WellFormed
  /\ Loaded
  /\ ~wrapped
  /\ calc = NoCall

SpecNested == InitNested /\ [][Next]_vars

\* ------------------------------------------------------ effects in progress
\* The page runs with jQuery's effects on.  It loads with one container in
\* a group that is an accordion; the second container is inserted later as
\* a child of the same group element.
InitFx ==
  /\ fxOff = FALSE
  /\ nested = FALSE
  /\ WellFormed
  /\ Loaded
  /\ accordionAttr = "true"
  /\ ~wrapped
  /\ status[2] = "absent"
  /\ calc = NoCall

\* the effects queued on w's content have run to their end: the content is
\* left as the last of them leaves it
Settle(w) ==
  /\ animating[w]
  /\ animating' = [animating EXCEPT ![w] = FALSE]
  /\ visible' = [visible EXCEPT ![w] = transition[w].kind = "slideDown"]
  /\ UNCHANGED <<dom, calc, status, classes, isExpanded, isInAccordion,
                 expandedClass, throttleDuration, ariaPressed, ariaExpanded,
                 transition, overlap, handlers, sinceToggle, pluginCalls, run>>
  /\ event' = NoEvent
  /\ applied' = NotApplied

NextFx ==
  \/ Next
  \/ \E w \in Containers : Settle(w)

SpecFx == InitFx /\ [][NextFx]_vars

\* ------------------------------------------- the static duration functions
\* Expandable.calculateExpandDuration, calculateCollapseDuration and
\* constrainValue are functions of their arguments alone.  A caller has
\* called one of them; the action of the function computes what it returns.
Heights == 0..MaxHeight
Values == (0 - MaxValue)..MaxValue

Calls ==
  {[fn |-> f, args |-> <<h>>, returned |-> FALSE, result |-> 0] :
     f \in {"calculateExpandDuration", "calculateCollapseDuration"},
     h \in Heights}
  \cup {[fn |-> "constrainValue", args |-> <<min, max, v>>,
         returned |-> FALSE, result |-> 0] :
          min \in Values, max \in Values, v \in Values}

InitCalc ==
  /\ fxOff = TRUE
  /\ nested = FALSE
  /\ WellFormed
  /\ Loaded
  /\ calc \in Calls

Pending(fn) == calc.fn = fn /\ ~calc.returned

CalculateExpandDuration ==
  /\ Pending("calculateExpandDuration")
  /\ calc' = [calc EXCEPT !.returned = TRUE,
                          !.result = calculateExpandDuration(calc.args[1])]
  /\ UNCHANGED page

CalculateCollapseDuration ==
  /\ Pending("calculateCollapseDuration")
  /\ calc' = [calc EXCEPT !.returned = TRUE,
                          !.result = calculateCollapseDuration(calc.args[1])]
  /\ UNCHANGED page

ConstrainValue ==
  /\ Pending("constrainValue")
  /\ calc' = [calc EXCEPT !.returned = TRUE,
                          !.result = constrainValue(calc.args[1], calc.args[2],
                                                    calc.args[3])]
  /\ UNCHANGED page

NextCalc ==
  \/ CalculateExpandDuration
  \/ CalculateCollapseDuration
  \/ ConstrainValue

SpecCalc == InitCalc /\ [][NextCalc]_vars
\* ----------------------------------------------------------------- claims
TogglesOf(e, w) ==
  Cardinality({k \in 1..Len(e.toggled) : e.toggled[k] = w})

WidgetUnchanged(w) ==
  /\ isExpanded'[w] = isExpanded[w]
  /\ classes'[w] = classes[w]
  /\ ariaPressed'[w] = ariaPressed[w]
  /\ ariaExpanded'[w] = ariaExpanded[w]
  /\ transition'[w] = transition[w]

\* C1: a click on a widget's trigger calls toggle at most once, a click that
\* arrives less than throttleDuration ms after a toggle call on the widget
\* calls toggle not at all, and the timer's expiry never calls toggle.
C1_BurstOneToggle ==
  [][\A w \in Containers :
       /\ (event'.target = w /\ Click(w)) =>
            /\ TogglesOf(event', w) <= 1
            /\ (sinceToggle[w] # Never /\ sinceToggle[w] < throttleDuration[w])
                 => TogglesOf(event', w) = 0
       /\ (\E i \in 1..Len(handlers[w]) : TimerFire(w, i))
            => (event' = NoEvent /\ \A v \in Containers : WidgetUnchanged(v))]_vars

\* C2: a throttled handler whose isThrottling flag is true has a pending
\* reset timer.
C2_ThrottleRecovers ==
  \A w \in Containers : \A i \in 1..Len(handlers[w]) :
    handlers[w][i].isThrottling => handlers[w][i].timer # NoTimer

\* C3: after a completed toggle that a click started on a member with
\* isInAccordion = true, at most one member of the group is expanded, and a
\* member that the toggle expanded is the expanded one.
C3_AtMostOneExpanded ==
  [][\A w \in Containers :
       (event'.target = w /\ Click(w) /\ isInAccordion[w]
          /\ event'.toggled # <<>> /\ ~event'.threw)
         => /\ Cardinality({v \in Containers :
                              status'[v] = "widget" /\ isExpanded'[v]}) <= 1
            /\ (~isExpanded[w] /\ isExpanded'[w])
                 => \A v \in Containers \ {w} :
                      status'[v] = "widget" => ~isExpanded'[v]]_vars

\* C4: for every widget, isExpanded holds exactly when the widget's
\* expandedClass is on its container.
C4_ExpandedIffClass ==
  \A w \in Containers :
    status[w] = "widget" => (isExpanded[w] <=> expandedClass[w] \in classes[w])

\* a click has expanded one widget and, with it, collapsed its sibling
C4_Witness ==
  \E w \in Containers : \E v \in Containers \ {w} :
    /\ event.toggled = <<w>> /\ ~event.threw /\ sinceToggle[w] = 0
    /\ isExpanded[w] /\ expandedClass[w] \in classes[w]
    /\ status[v] = "widget" /\ ~isExpanded[v]
    /\ transition[v].kind = "slideUp" /\ transition[v].duration > 0

\* C5: a click that is processed (toggle is called) flips the widget's
\* isExpanded, and a collapsed widget of an accordion ends up expanded.
C5_ToggleFlips ==
  [][\A w \in Containers :
       (event'.target = w /\ Click(w) /\ event'.toggled # <<>>)
         => /\ isExpanded'[w] = ~isExpanded[w]
            /\ (~isExpanded[w] /\ isInAccordion[w]) => isExpanded'[w]]_vars

\* C6: after two toggle calls in succession on one widget, isExpanded,
\* aria-pressed and aria-expanded have the values they had before the first.
C6_TwoTogglesRestore ==
  run.count = 2 =>
    /\ isExpanded[run.target] = run.before.isExpanded
    /\ ariaPressed[run.target] = run.before.ariaPressed
    /\ ariaExpanded[run.target] = run.before.ariaExpanded

\* a collapsed widget has been toggled twice: expanded, then collapsed
C6_Witness ==
  /\ run.count = 2
  /\ run.before = [isExpanded |-> FALSE, ariaPressed |-> "false",
                   ariaExpanded |-> "false"]
  /\ event.toggled = <<run.target>>
  /\ transition[run.target].kind = "slideUp"

\* the widget of the scenario: initialized once, with the default
\* configuration, content height 100px
ScenarioWidget(w) ==
  /\ status[w] = "widget"
  /\ Len(handlers[w]) = 1
  /\ handlers[w][1].duration = DefaultThrottleDuration
  /\ isInAccordion[w] = DefaultIsInAccordion
  /\ expandedClass[w] = DefaultExpandedClass
  /\ throttleDuration[w] = DefaultThrottleDuration
  /\ ContentHeight[w] = 100

\* C7: the scenario.  Initialization of a container without the class
\* collapses with duration 0; the first click expands with duration 450; a
\* click less than 450ms after it is ignored and changes nothing; a click
\* after 450ms on the expanded widget collapses with duration 350.
C7_Scenario ==
  /\ \A w \in Containers :
       (status[w] = "widget" /\ ~isExpanded[w])
         => transition[w] = [kind |-> "slideUp", duration |-> 0]
  /\ [][\A w \in Containers :
          /\ (pluginCalls' # pluginCalls /\ Plugin(w, NoOptions)
                /\ DefaultExpandedClass \notin classes[w])
               => /\ ~isExpanded'[w]
                  /\ transition'[w] = [kind |-> "slideUp", duration |-> 0]
          /\ (event'.target = w /\ ScenarioWidget(w) /\ Click(w))
               => /\ (sinceToggle[w] = Never /\ ~isExpanded[w])
                       => /\ isExpanded'[w]
                          /\ transition'[w] =
                               [kind |-> "slideDown", duration |-> 450]
                  /\ (sinceToggle[w] # Never /\ sinceToggle[w] < 450)
                       => /\ event'.toggled = <<>>
                          /\ \A v \in Containers : WidgetUnchanged(v)
                  /\ (sinceToggle[w] >= 450 /\ isExpanded[w])
                       => /\ ~isExpanded'[w]
                          /\ transition'[w] =
                               [kind |-> "slideUp", duration |-> 350]]_vars

\* the scenario's last click has just collapsed the widget
C7_Witness ==
  \E w \in Containers :
    /\ ScenarioWidget(w)
    /\ run.target = w /\ run.count = 2 /\ ~run.before.isExpanded
    /\ event.toggled = <<w>> /\ sinceToggle[w] = 0
    /\ ~isExpanded[w]
    /\ transition[w] = [kind |-> "slideUp", duration |-> 350]

\* C8: every click on a widget's trigger has its default action prevented
\* and its propagation stopped.
C8_DefaultSuppressed ==
  event.target # 0 => (event.defaultPrevented /\ event.propagationStopped)

\* the value an options object gives to a key, the default when it has none
Supplied(options, k) ==
  IF k \in options.given THEN options[k] ELSE defaultProperties[k]

\* C9: after the plugin has been applied with an options object, each of the
\* three properties of the instance has the value the options object
\* supplies, and the default when it supplies none.
C9_OptionsOverDefaults ==
  applied.target # 0 =>
    /\ isInAccordion[applied.target] = Supplied(applied.options, "isInAccordion")
    /\ expandedClass[applied.target] = Supplied(applied.options, "expandedClass")
    /\ throttleDuration[applied.target]
         = Supplied(applied.options, "throttleDuration")

\* C9 (amended): expandedClass and throttleDuration have the supplied value,
\* or the default; isInAccordion is the truth value of the group's accordion
\* data flag, whatever the options object supplies.  The widgets made at
\* load have the defaults.
C9_SuppliedClassAndDuration ==
  /\ pluginCalls = 0 =>
       \A w \in Containers :
         status[w] = "widget" =>
           /\ expandedClass[w] = DefaultExpandedClass
           /\ throttleDuration[w] = DefaultThrottleDuration
           /\ isInAccordion[w] = DataAccordion(accordionAttr)
  /\ applied.target # 0 =>
       LET w == applied.target
       IN /\ status[w] = "widget"
          /\ isInAccordion[w] = DataAccordion(accordionAttr)
          /\ expandedClass[w] = Supplied(applied.options, "expandedClass")
          /\ throttleDuration[w] = Supplied(applied.options, "throttleDuration")
          /\ handlers[w][Len(handlers[w])].duration
               = Supplied(applied.options, "throttleDuration")

\* a caller has supplied all three options, with isInAccordion = true, to a
\* container of a group that is no accordion
C9_Witness ==
  /\ applied.target # 0
  /\ applied.options.given = OptionKeys
  /\ applied.options.isInAccordion = TRUE
  /\ expandedClass[applied.target] \in CallerClasses
  /\ throttleDuration[applied.target] \in CallerDurations
  /\ ~isInAccordion[applied.target]

\* C10: exactly one click handler is bound on the container of a widget.
C10_OneHandler ==
  \A w \in Containers : status[w] = "widget" => Len(handlers[w]) = 1

\* a handler of widget w is inside its throttle window
Throttling(w) ==
  \E i \in 1..Len(handlers[w]) :
    handlers[w][i].isThrottling /\ handlers[w][i].timer > 0

\* C11: the throttle is per instance.  While a widget a is inside its
\* throttle window, a click on the trigger of another widget b that has a
\* handler which is not throttling calls b's toggle in that same step,
\* whether or not a and b are members of one accordion.
C11_ThrottlePerInstance ==
  [][\A b \in Containers :
       (event'.target = b /\ Click(b)
          /\ (\E a \in Containers \ {b} : Throttling(a))
          /\ (\E i \in 1..Len(handlers[b]) : ~handlers[b][i].isThrottling))
         => TogglesOf(event', b) >= 1]_vars

\* widget a was toggled TickMs ago and is throttling; the click on its
\* sibling b in the same accordion has just been processed
C11_Witness ==
  \E a \in Containers : \E b \in Containers \ {a} :
    /\ Throttling(a) /\ sinceToggle[a] = TickMs
    /\ isInAccordion[a] /\ isInAccordion[b] /\ b \in SiblingSet(a)
    /\ event.target = b /\ event.toggled = <<b>> /\ ~event.threw
    /\ sinceToggle[b] = 0
    /\ isExpanded[b] /\ ~isExpanded[a]

\* the string jQuery's attr stores for the boolean literal the code passes
AriaString(b) == IF b THEN "true" ELSE "false"

\* C13: for every widget that has a trigger and a content region,
\* aria-pressed on the trigger and aria-expanded on the content are "true"
\* when isExpanded is true and "false" when it is false.
C13_AriaMatchesState ==
  \A w \in Containers :
    (status[w] = "widget" /\ hasTarget[w] /\ hasContent[w]) =>
      /\ ariaPressed[w] = AriaString(isExpanded[w])
      /\ ariaExpanded[w] = AriaString(isExpanded[w])

\* a click has expanded a widget that initialization had collapsed, and
\* collapsed its expanded sibling
C13_Witness ==
  \E w \in Containers : \E v \in Containers \ {w} :
    /\ event.toggled = <<w>> /\ ~event.threw
    /\ run.target = w /\ run.count = 1 /\ run.before.ariaExpanded = "false"
    /\ isExpanded[w] /\ ariaPressed[w] = "true" /\ ariaExpanded[w] = "true"
    /\ status[v] = "widget" /\ expandedClass[v] \notin classes[v]
    /\ transition[v].duration > 0
    /\ ariaPressed[v] = "false" /\ ariaExpanded[v] = "false"

\* the step changes isExpanded, the classes or an ARIA attribute of w
StateChanged(w) ==
  \/ isExpanded'[w] # isExpanded[w]
  \/ classes'[w] # classes[w]
  \/ ariaPressed'[w] # ariaPressed[w]
  \/ ariaExpanded'[w] # ariaExpanded[w]

\* C19: a click on w changes the state of another widget v only when w has
\* isInAccordion = true and v is a sibling element of w; when the click
\* made one toggle call, only when w was also collapsed.  So a toggle that
\* collapses an expanded widget, and a toggle of a widget with
\* isInAccordion = false, change no other widget.
C19_ToggleFrame ==
  [][\A w \in Containers :
       (event'.target = w /\ Click(w)) =>
         \A v \in Containers \ {w} :
           StateChanged(v) =>
             /\ isInAccordion[w]
             /\ v \in SiblingSet(w)
             /\ status[v] = "widget"
             /\ Len(event'.toggled) = 1 => ~isExpanded[w]]_vars

\* one toggle call has expanded an accordion member w that was collapsed,
\* and its sibling v, never toggled itself, has been collapsed with the
\* height-based duration of the sibling loop
C19_Witness ==
  \E w \in Containers : \E v \in SiblingSet(w) :
    /\ event.target = w /\ event.toggled = <<w>> /\ ~event.threw
    /\ run.target = w /\ run.count = 1 /\ ~run.before.isExpanded
    /\ isInAccordion[w] /\ isExpanded[w]
    /\ status[v] = "widget" /\ sinceToggle[v] = Never
    /\ ~isExpanded[v] /\ ariaPressed[v] = "false"
    /\ transition[v] = [kind |-> "slideUp",
                        duration |-> calculateCollapseDuration(ContentHeight[v])]

\* C17: initialization sets isExpanded to whether the container carries
\* expandedClass when it runs, starts exactly one transition, of duration 0,
\* a slideDown when the class is present and a slideUp when it is absent,
\* and leaves the container's classes as they were.  The first conjunct is
\* about the widgets made at load, the second about every later
\* application of the plugin.
C17_InitRendersState ==
  /\ \A w \in Containers :
       status[w] = "widget" =>
         /\ isExpanded[w] = (expandedClass[w] \in classes[w])
         /\ transition[w] =
              [kind |-> IF expandedClass[w] \in classes[w]
                        THEN "slideDown" ELSE "slideUp",
               duration |-> 0]
  /\ [][applied'.target # 0 =>
          LET w == applied'.target
              had == expandedClass'[w] \in classes[w]
          IN /\ isExpanded'[w] = had
             /\ applied'.transitions = 1
             /\ transition'[w] =
                  [kind |-> IF had THEN "slideDown" ELSE "slideUp",
                   duration |-> 0]
             /\ classes'[w] = classes[w]]_vars

\* the plugin has been applied again to a widget that a click had expanded
\* with an animated transition
C17_Witness ==
  /\ applied.target # 0
  /\ applied.transitions = 1
  /\ sinceToggle[applied.target] # Never
  /\ Len(handlers[applied.target]) = 2
  /\ isExpanded[applied.target]
  /\ expandedClass[applied.target] \in classes[applied.target]
  /\ transition[applied.target] = [kind |-> "slideDown", duration |-> 0]

\* C14: for a height h >= 0, calculateExpandDuration( h ) lies in
\* [450, 900]: it is 450 when 4h < 450, 900 when 4h > 900, and 4h
\* otherwise.
C14_ExpandDurationClamped ==
  (calc.fn = "calculateExpandDuration" /\ calc.returned) =>
    LET h == calc.args[1]
    IN /\ calc.result >= 450 /\ calc.result <= 900
       /\ calc.result = IF 4 * h < 450 THEN 450
                        ELSE IF 4 * h > 900 THEN 900
                        ELSE 4 * h

\* the call has returned for a height whose fourfold exceeds the ceiling
C14_Witness ==
  /\ calc.fn = "calculateExpandDuration" /\ calc.returned
  /\ 4 * calc.args[1] > 900
  /\ calc.result = 900

\* C15: for a height h >= 0, calculateCollapseDuration( h ) lies in
\* [350, 900]: it is 350 when 2h < 350, 900 when 2h > 900, and 2h
\* otherwise.
C15_CollapseDurationClamped ==
  (calc.fn = "calculateCollapseDuration" /\ calc.returned) =>
    LET h == calc.args[1]
    IN /\ calc.result >= 350 /\ calc.result <= 900
       /\ calc.result = IF 2 * h < 350 THEN 350
                        ELSE IF 2 * h > 900 THEN 900
                        ELSE 2 * h

\* the call has returned for a height whose double lies between the floor
\* and the ceiling
C15_Witness ==
  /\ calc.fn = "calculateCollapseDuration" /\ calc.returned
  /\ 2 * calc.args[1] > 350 /\ 2 * calc.args[1] < 900
  /\ calc.result = 2 * calc.args[1]

\* C16: for min <= max, constrainValue( min, max, v ) is min when v < min,
\* max when v > max and v otherwise, so it lies in [min, max].
C16_ConstrainValue ==
  (calc.fn = "constrainValue" /\ calc.returned /\ calc.args[1] <= calc.args[2]) =>
    LET min == calc.args[1]
        max == calc.args[2]
        v == calc.args[3]
    IN /\ v < min => calc.result = min
       /\ v > max => calc.result = max
       /\ (min <= v /\ v <= max) => calc.result = v
       /\ min <= calc.result /\ calc.result <= max

\* the call has returned for a value above the ceiling of a proper interval
C16_Witness ==
  /\ calc.fn = "constrainValue" /\ calc.returned
  /\ calc.args[1] < calc.args[2] /\ calc.args[3] > calc.args[2]
  /\ calc.result = calc.args[2]

\* the attributes and the transition of a widget whose elements are missing
\* are untouched, those of the elements it has follow isExpanded, and
\* isExpanded agrees with the class on the container
InertOnMissing(w) ==
  /\ isExpanded[w] <=> expandedClass[w] \in classes[w]
  /\ ariaPressed[w] = IF hasTarget[w] THEN AriaString(isExpanded[w]) ELSE "unset"
  /\ ariaExpanded[w] = IF hasContent[w] THEN AriaString(isExpanded[w]) ELSE "unset"
  /\ ~hasContent[w] => transition[w] = NoTransition

\* C18: on a container that lacks its trigger, its content region or both,
\* initialization, expand and collapse run to their last statement:
\* initialization binds the click handler, expand leaves isExpanded true
\* and the class on the container, collapse leaves isExpanded false and
\* the class off.  The attributes of the missing elements are never set.
C18_MissingElementsInert ==
  /\ \A w \in Containers : status[w] = "widget" => InertOnMissing(w)
  /\ [][\A w \in Containers :
          ~(hasTarget[w] /\ hasContent[w]) =>
            /\ status'[w] = "widget" => InertOnMissing(w)'
            /\ applied'.target = w =>
                  /\ status'[w] = "widget"
                  /\ Len(handlers'[w]) = Len(handlers[w]) + 1
                  /\ isExpanded'[w] = (expandedClass'[w] \in classes[w])
                  /\ classes'[w] = classes[w]
            /\ (\E d \in CallDurations : CallExpand(w, d)) =>
                  /\ isExpanded'[w]
                  /\ classes'[w] = classes[w] \cup {expandedClass[w]}
            /\ (\E d \in CallDurations : CallCollapse(w, d)) =>
                  /\ ~isExpanded'[w]
                  /\ classes'[w] = classes[w] \ {expandedClass[w]}]_vars

\* a widget without a content region, collapsed at load, has been expanded:
\* its trigger is pressed, the class is on, no transition has started
C18_Witness ==
  \E w \in Containers :
    /\ status[w] = "widget" /\ hasTarget[w] /\ ~hasContent[w]
    /\ isExpanded[w] /\ expandedClass[w] \in classes[w]
    /\ ariaPressed[w] = "true" /\ ariaExpanded[w] = "unset"
    /\ transition[w] = NoTransition
    /\ event.toggled = <<w>>

\* C12: expand and collapse set isExpanded when they are called.  While an
\* effect on a widget's content is in progress, from the state in which the
\* call that started it returned until it has finished, isExpanded is
\* already the value that call has set: true after expand (the last effect
\* started is the slideDown), false after collapse (the slideUp).
C12_StateSetAtCallTime ==
  \A w \in Containers :
    (status[w] = "widget" /\ animating[w]) =>
      /\ transition[w].kind = "slideDown" => isExpanded[w]
      /\ transition[w].kind = "slideUp" => ~isExpanded[w]

\* a caller has called expand on a collapsed widget: isExpanded is true,
\* the slideDown of 450ms is in progress and the content is not yet shown
C12_Witness ==
  \E w \in Containers :
    /\ status[w] = "widget" /\ sinceToggle[w] = Never
    /\ event = NoEvent /\ applied = NotApplied
    /\ isExpanded[w]
    /\ animating[w] /\ ~overlap[w] /\ ~visible[w]
    /\ transition[w] = [kind |-> "slideDown", duration |-> 450]

\* C20: an expand or collapse may be called while an effect on the same
\* content is in progress, and whenever no effect on a widget's content is
\* in progress the content is displayed exactly if isExpanded is true.
C20_SettledMatchesState ==
  \A w \in Containers :
    (status[w] = "widget" /\ hasContent[w] /\ ~animating[w])
      => (visible[w] <=> isExpanded[w])

\* a click has collapsed a widget while the slideDown of the click before
\* was in progress, and the effects have since run to their end: the
\* content is hidden
C20_Witness ==
  \E w \in Containers :
    /\ status[w] = "widget"
    /\ overlap[w] /\ ~animating[w]
    /\ run.target = w /\ run.count = 2 /\ ~run.before.isExpanded
    /\ transition[w].kind = "slideUp" /\ transition[w].duration > 0
    /\ ~isExpanded[w] /\ ~visible[w]

\* the throttle of every handler bound on w's container ignores a click
Ignoring(w) ==
  \A i \in 1..Len(handlers[w]) : handlers[w][i].isThrottling

\* C21: a click on the trigger of a widget whose throttle ignores it
\* changes isExpanded, the classes and the ARIA attributes of no widget of
\* the page, the widgets that enclose the clicked one included.
C21_IgnoredClickChangesNothing ==
  [][\A w \in Containers :
       (event'.target = w /\ Click(w) /\ Ignoring(w))
         => \A v \in Containers : ~StateChanged(v)]_vars
====
